---- MODULE Spec2Model ----
(***************************************************************************)
(* LogSage: the multi-stage weighting-and-selection pipeline               *)
(* (logsage/run_pipeline.py and logsage/core, logsage/preprocess).         *)
(*                                                                         *)
(* A log line is a sequence of tokens.  Each token stands for a fixed      *)
(* piece of text:                                                          *)
(*   "sp" = " "      "nl" = "\n"     "hash" = "#"     "dash" = "---"       *)
(*   "FAIL" = "FAIL:"   "Failures" = "Failures:"   "failed" = "failed"     *)
(*   "error" = "error"  "w" = "ok"                                         *)
(*   "w5000", "w8000", "w12000", "w22000" = that many words "ok", single   *)
(*   spaces between them.                                                  *)
(* str.strip, str.split, re.search, re.match and the keyword test are      *)
(* computed on the tokens.                                                 *)
(***************************************************************************)
EXTENDS Integers, Sequences, FiniteSets, TLC

VARIABLES
    pc,                  \* position in the run: the stage about to execute
    raw_log,             \* run_pipeline.py:19
    filtered_lines,      \* run_pipeline.py:22   list of <<index, stripped line>>
    expanded_lines,      \* run_pipeline.py:28   sorted list of indices
    weights,             \* run_pipeline.py:31, 34   the weight vector
    initial_weights,     \* the vector handed to enhance_weights_by_pattern
    threshold,           \* context_expand.py:66, 0 before it is assigned
    candidate_indices,   \* run_pipeline.py:37, handed on as list(candidate_indices)
    ranked_block_ranges, \* run_pipeline.py:40
    ranked_log_blocks,   \* run_pipeline.py:43-46
    selected_blocks,     \* token_budget.py:37
    current_token_count, \* token_budget.py:38
    rejected,            \* the selector loop left through break (token_budget.py:47)
    block_pos,           \* the for loop of token_budget.py:40: blocks already visited
    selected_indices,    \* the list handed to rank_blocks_by_density
    final_log,           \* run_pipeline.py:52
    pre_seen,            \* preprocess/log_expand.py:8, in the order of line 18
    pre_expanded,        \* preprocess/log_expand.py:9
    err                  \* the exception that ended the run, "" if none

vars == <<pc, raw_log, filtered_lines, expanded_lines, weights, initial_weights,
          threshold, candidate_indices, ranked_block_ranges, ranked_log_blocks,
          selected_blocks, current_token_count, rejected, block_pos,
          selected_indices, final_log, pre_seen, pre_expanded, err>>

(***************************************************************************)
(* Configuration (logsage/config.py)                                       *)
(***************************************************************************)
KEYWORDS == {"fatal", "fail", "panic", "error", "exit", "kill", "no such file",
             "err:", "err!", "failures:", "err ", "missing", "exception", "cannot"}
LOG_TAIL_LINES == 200
EXPAND_BEFORE == 4
EXPAND_AFTER == 6
\* ALPHA = 0.7, kept as the fraction ALPHA_NUM / ALPHA_DEN
ALPHA_NUM == 7
ALPHA_DEN == 10
BETA == 500
ENABLE_WEAK_BOOST == TRUE
WEIGHT_THRESHOLD_LOW == 1
WEIGHT_THRESHOLD_HIGH == 3
WEIGHT_COUNT_THRESHOLD == 500
TOKEN_LIMIT == 22000

(***************************************************************************)
(* Generic helpers                                                         *)
(***************************************************************************)
Max(a, b) == IF a >= b THEN a ELSE b
Min(a, b) == IF a <= b THEN a ELSE b

RECURSIVE SumRange(_, _, _)
\* f[lo] + ... + f[hi], by halving (0 when lo > hi)
SumRange(f, lo, hi) ==
    IF lo > hi THEN 0
    ELSE IF lo = hi THEN f[lo]
    ELSE LET mid == (lo + hi) \div 2
         IN  SumRange(f, lo, mid) + SumRange(f, mid + 1, hi)

\* Python's sum() over a list of integers
SumSeq(s) == SumRange(s, 1, Len(s))

RECURSIVE Flatten(_)
\* [x for b in blocks for x in b]
Flatten(ss) == IF ss = <<>> THEN <<>> ELSE ss[1] \o Flatten(Tail(ss))

RECURSIVE SortedWithin(_, _, _)
\* the ascending list of the elements of S that lie in lo..hi, by halving
SortedWithin(S, lo, hi) ==
    IF lo > hi THEN <<>>
    ELSE IF lo = hi THEN (IF lo \in S THEN <<lo>> ELSE <<>>)
    ELSE LET mid == (lo + hi) \div 2
         IN  SortedWithin(S, lo, mid) \o SortedWithin(S, mid + 1, hi)

RECURSIVE MinRange(_, _, _)
\* min(f[lo], ..., f[hi]) for lo <= hi, by halving
MinRange(f, lo, hi) ==
    IF lo = hi THEN f[lo]
    ELSE LET mid == (lo + hi) \div 2
             a == MinRange(f, lo, mid)
             b == MinRange(f, mid + 1, hi)
         IN  IF a <= b THEN a ELSE b

RECURSIVE MaxRange(_, _, _)
\* max(f[lo], ..., f[hi]) for lo <= hi, by halving
MaxRange(f, lo, hi) ==
    IF lo = hi THEN f[lo]
    ELSE LET mid == (lo + hi) \div 2
             a == MaxRange(f, lo, mid)
             b == MaxRange(f, mid + 1, hi)
         IN  IF a >= b THEN a ELSE b

\* SortedSet as it would be with the list used as it comes
Unsorted(s) == s

\* sorted(set(s)) for a list s of integers
SortedSet(s) ==
    IF Len(s) = 0 THEN <<>>
    ELSE SortedWithin({s[i] : i \in DOMAIN s}, MinRange(s, 1, Len(s)), MaxRange(s, 1, Len(s)))

\* s[::-1]
Reverse(s) == [k \in 1..Len(s) |-> s[Len(s) + 1 - k]]

(***************************************************************************)
(* Text: str.strip, str.split, re.search / re.match, keyword containment   *)
(***************************************************************************)
IsSpace(tok) == tok \in {"sp", "nl"}

\* number of blanks inside the text of one token
InnerBlanks(tok) ==
    CASE tok = "w5000" -> 4999
      [] tok = "w8000" -> 7999
      [] tok = "w12000" -> 11999
      [] tok = "w22000" -> 21999
      [] OTHER -> 0

\* line.strip(): leading and trailing whitespace removed
Strip(line) ==
    LET solid == {i \in DOMAIN line : ~IsSpace(line[i])}
    IN  IF solid = {} THEN <<>>
        ELSE LET lo == CHOOSE i \in solid : \A j \in solid : i <= j
                 hi == CHOOSE i \in solid : \A j \in solid : i >= j
             IN  SubSeq(line, lo, hi)

\* len(line.split()): the number of maximal runs of non-whitespace characters
WordCount(line) ==
    SumSeq([i \in DOMAIN line |->
        IF IsSpace(line[i]) THEN 0
        ELSE InnerBlanks(line[i])
             + (IF i = 1 \/ IsSpace(line[i - 1]) THEN 1 ELSE 0)])

\* the configured keywords that occur in the lower-cased text of a token
KeywordsIn(tok) ==
    CASE tok = "FAIL" -> {"fail"}
      [] tok = "failed" -> {"fail"}
      [] tok = "Failures" -> {"fail", "failures:"}
      [] tok = "error" -> {"error"}
      [] OTHER -> {}

\* keyword_match: any(k.lower() in line.lower() for k in KEYWORDS)
keyword_match(line) ==
    \E k \in KEYWORDS : \E i \in DOMAIN line : k \in KeywordsIn(line[i])

\* any(re.search(p, line) for p in FAILURE_PATTERNS),
\* FAILURE_PATTERNS = [r"--- FAIL:", r"Failures?:"], case-sensitive
FailureSearch(line) ==
    \/ \E i \in DOMAIN line :
          /\ i + 2 \in DOMAIN line
          /\ line[i] = "dash" /\ line[i + 1] = "sp" /\ line[i + 2] = "FAIL"
    \/ \E i \in DOMAIN line : line[i] = "Failures"

\* re.match(SECTION_PATTERN, line), SECTION_PATTERN = r"^\s*#"
SectionMatch(line) ==
    \E i \in DOMAIN line :
        /\ line[i] = "hash"
        /\ \A j \in 1..(i - 1) : IsSpace(line[j])

(***************************************************************************)
(* Stage 1: candidate filter (core/log_filter.py)                          *)
(***************************************************************************)
\* filter_log_lines as it would be with a tail of LOG_TAIL_LINES - 1 lines
filter_log_lines_short_tail(log_lines) ==
    LET n == Len(log_lines)
        tail == (n - LOG_TAIL_LINES + 1)..(n - 1)
        pool == {i \in 0..(n - 1) : keyword_match(log_lines[i + 1]) \/ i \in tail}
        order == SortedWithin(pool, 0, n - 1)
    IN  [k \in 1..Len(order) |-> <<order[k], Strip(log_lines[order[k] + 1])>>]

\* filter_log_lines as it would be with a tail of LOG_TAIL_LINES + 1 lines
filter_log_lines_long_tail(log_lines) ==
    LET n == Len(log_lines)
        tail == (n - LOG_TAIL_LINES - 1)..(n - 1)
        pool == {i \in 0..(n - 1) : keyword_match(log_lines[i + 1]) \/ i \in tail}
        order == SortedWithin(pool, 0, n - 1)
    IN  [k \in 1..Len(order) |-> <<order[k], Strip(log_lines[order[k] + 1])>>]

\* filter_log_lines: indices are 0-based, line i is log_lines[i + 1]
filter_log_lines(log_lines) ==
    LET n == Len(log_lines)
        tail == (n - LOG_TAIL_LINES)..(n - 1)
        pool == {i \in 0..(n - 1) : keyword_match(log_lines[i + 1]) \/ i \in tail}
        order == SortedWithin(pool, 0, n - 1)
    IN  [k \in 1..Len(order) |-> <<order[k], Strip(log_lines[order[k] + 1])>>]

(***************************************************************************)
(* Stage 2: window expander (core/log_expand.py)                           *)
(***************************************************************************)
\* Window as it would be with end = idx + after
WindowExclusive(n, idx, before, after) ==
    Max(0, idx - before)..(Min(n, idx + after) - 1)

\* Window as it would be with one more leading line
WindowWide(n, idx, before, after) ==
    Max(0, idx - before - 1)..(Min(n, idx + after + 1) - 1)

\* Window as it would be if keys outside the log were rejected
WindowValidated(n, idx, before, after) ==
    IF idx < 0 \/ idx >= n
      THEN {}
      ELSE Max(0, idx - before)..(Min(n, idx + after + 1) - 1)

\* range(start, end) of one key
Window(n, idx, before, after) ==
    Max(0, idx - before)..(Min(n, idx + after + 1) - 1)

\* expand_log_blocks as it would be with the two window sizes exchanged
expand_log_blocks_swapped(log_lines, key_line_nums) ==
    SortedWithin(
        UNION {Window(Len(log_lines), key_line_nums[k], EXPAND_AFTER, EXPAND_BEFORE) :
                 k \in DOMAIN key_line_nums},
        0, Len(log_lines) - 1)

\* sorted(expanded_indices); every window lies within 0..len(log_lines)-1
expand_log_blocks(log_lines, key_line_nums) ==
    SortedWithin(
        UNION {Window(Len(log_lines), key_line_nums[k], EXPAND_BEFORE, EXPAND_AFTER) :
                 k \in DOMAIN key_line_nums},
        0, Len(log_lines) - 1)

(***************************************************************************)
(* Stage 2, the copy in preprocess/log_expand.py                           *)
(***************************************************************************)
\* the indices appended by the loop of lines 11-18 for the keys from the
\* k-th on, seen holding the indices appended so far in the order of their
\* appending; checked is FALSE for the loop without the test of line 16
RECURSIVE AppendWindows(_, _, _, _, _)
AppendWindows(n, key_line_nums, k, seen, checked) ==
    IF k > Len(key_line_nums) THEN seen
    ELSE LET win == Window(n, key_line_nums[k], EXPAND_BEFORE, EXPAND_AFTER)
             fresh == IF checked
                        THEN win \ {seen[j] : j \in DOMAIN seen}
                        ELSE win
         IN  AppendWindows(n, key_line_nums, k + 1,
                           seen \o SortedWithin(fresh, 0, n - 1), checked)

\* preprocess.expand_log_blocks as it would be without the test of line 16
preprocess_expand_log_blocks_unchecked(log_lines, key_line_nums) ==
    LET order == AppendWindows(Len(log_lines), key_line_nums, 1, <<>>, FALSE)
    IN  [seen |-> order,
         expanded |-> [k \in 1..Len(order) |-> Strip(log_lines[order[k] + 1])]]

\* preprocess.expand_log_blocks: expanded is the list it returns, seen the
\* indices of its set seen in the order in which line 18 added them
preprocess_expand_log_blocks(log_lines, key_line_nums) ==
    LET order == AppendWindows(Len(log_lines), key_line_nums, 1, <<>>, TRUE)
    IN  [seen |-> order,
         expanded |-> [k \in 1..Len(order) |-> Strip(log_lines[order[k] + 1])]]

(***************************************************************************)
(* Stage 3: weight initializer (preprocess/weight_init.py)                 *)
(***************************************************************************)
\* HighConfidence as it would be with strict comparisons
HighConfidenceStrict(num_logs, num_candidates) ==
    /\ IF num_logs > 0
          THEN ALPHA_DEN * num_candidates < ALPHA_NUM * num_logs
          ELSE TRUE
    /\ num_candidates < BETA

\* high_confidence = (num_candidates / num_logs <= ALPHA) and (num_candidates <= BETA).
\* The float quotient is compared exactly: c / n <= 0.7 iff 10 * c <= 7 * n for
\* every c, n below 10^15 (the quotient is correctly rounded and 0.7 is the
\* double nearest to 7/10).
HighConfidence(num_logs, num_candidates) ==
    /\ IF num_logs > 0
          THEN ALPHA_DEN * num_candidates <= ALPHA_NUM * num_logs
          ELSE TRUE
    /\ num_candidates <= BETA

\* assign_initial_weights as it would be without the lower bound of the index
\* test: a negative index counts from the end of the vector
assign_initial_weights_wrapping(log_lines, cands) ==
    LET num_logs == Len(log_lines)
        num_candidates == Len(cands)
        high_confidence == HighConfidence(num_logs, num_candidates)
        valid == {IF cands[k] < 0 THEN cands[k] + num_logs ELSE cands[k] :
                     k \in DOMAIN cands} \cap (0..(num_logs - 1))
    IN  [i \in 1..num_logs |->
            IF (i - 1) \in valid
              THEN (IF high_confidence THEN 3 ELSE 1)
              ELSE 0]

\* assign_initial_weights as it would be with one entry per valid candidate
assign_initial_weights_compact(log_lines, cands) ==
    LET num_logs == Len(log_lines)
        num_candidates == Len(cands)
        high_confidence == HighConfidence(num_logs, num_candidates)
        valid == {cands[k] : k \in DOMAIN cands} \cap (0..(num_logs - 1))
    IN  [i \in 1..Cardinality(valid) |-> IF high_confidence THEN 3 ELSE 1]

assign_initial_weights(log_lines, cands) ==
    LET num_logs == Len(log_lines)
        num_candidates == Len(cands)
        high_confidence == HighConfidence(num_logs, num_candidates)
        valid == {cands[k] : k \in DOMAIN cands} \cap (0..(num_logs - 1))
    IN  [i \in 1..num_logs |->
            IF (i - 1) \in valid
              THEN (IF high_confidence THEN 3 ELSE 1)
              ELSE 0]

(***************************************************************************)
(* Stage 4: weight enhancer (core/weight_enhance.py)                       *)
(***************************************************************************)
\* EnhanceLine as it would be with the section test first
EnhanceLineSectionFirst(raw, w) ==
    LET line == Strip(raw)
    IN  IF SectionMatch(line) THEN w + 2
        ELSE IF FailureSearch(line) THEN 10
        ELSE IF w > 0 /\ ENABLE_WEAK_BOOST THEN w + 1
        ELSE w

\* EnhanceLine as it would be with the weak boost in an if of its own
EnhanceLineStacking(raw, w) ==
    LET line == Strip(raw)
        first == IF FailureSearch(line) THEN 10
                 ELSE IF SectionMatch(line) THEN w + 2
                 ELSE w
    IN  IF ~FailureSearch(line) /\ first > 0 /\ ENABLE_WEAK_BOOST
          THEN first + 1
          ELSE first

\* EnhanceLine as it would be without the weak boost
EnhanceLineNoWeakBoost(raw, w) ==
    LET line == Strip(raw)
    IN  IF FailureSearch(line) THEN 10
        ELSE IF SectionMatch(line) THEN w + 2
        ELSE w

\* one iteration of the loop body, weight_enhance.py:16-28
EnhanceLine(raw, w) ==
    LET line == Strip(raw)
    IN  IF FailureSearch(line) THEN 10
        ELSE IF SectionMatch(line) THEN w + 2
        ELSE IF w > 0 /\ ENABLE_WEAK_BOOST THEN w + 1
        ELSE w

\* the result: err = "AssertionError" when the assert of line 12 fails
enhance_weights_by_pattern(log_lines, iw) ==
    IF Len(log_lines) # Len(iw)
      THEN [err |-> "AssertionError", val |-> <<>>]
      ELSE [err |-> "",
            val |-> [i \in 1..Len(iw) |-> EnhanceLine(log_lines[i], iw[i])]]

\* the argument list as it would be after the call if line 13 made no copy
initial_weights_after_in_place(log_lines, iw) ==
    IF Len(log_lines) # Len(iw)
      THEN iw
      ELSE [i \in 1..Len(iw) |-> EnhanceLine(log_lines[i], iw[i])]

\* the argument list after the call: line 13 copies it and lines 20, 24, 28
\* write to the copy only, so it keeps the entries it came with
initial_weights_after(log_lines, iw) == iw

(***************************************************************************)
(* Stage 5: adaptive context expander (core/context_expand.py)             *)
(***************************************************************************)
\* max(weights) of a non-empty list
MaxOf(ws) == MaxRange(ws, 1, Len(ws))

\* compute_adaptive_threshold as it would be with a strict count comparison
compute_adaptive_threshold_strict(ws, gamma) ==
    LET max_weight == MaxRange(ws, 1, Len(ws))
        num_nonzero_weights == Cardinality({i \in DOMAIN ws : ws[i] >= 1})
    IN  IF max_weight = 1 \/ num_nonzero_weights < gamma
          THEN WEIGHT_THRESHOLD_LOW
          ELSE WEIGHT_THRESHOLD_HIGH

\* core/context_expand.py:23-28, for a non-empty weight vector
compute_adaptive_threshold(ws, gamma) ==
    LET max_weight == MaxOf(ws)
        num_nonzero_weights == Cardinality({i \in DOMAIN ws : ws[i] >= 1})
    IN  IF max_weight = 1 \/ num_nonzero_weights <= gamma
          THEN WEIGHT_THRESHOLD_LOW
          ELSE WEIGHT_THRESHOLD_HIGH

\* expand_context_around_high_weight_lines as it would be with weight > threshold
expand_context_strict(log_lines, ws, lines_before, lines_after, gamma) ==
    IF Len(log_lines) # Len(ws)
      THEN [err |-> "AssertionError", val |-> {}, thr |-> 0]
    ELSE IF Len(ws) = 0
      THEN [err |-> "ValueError", val |-> {}, thr |-> 0]
    ELSE LET thr == compute_adaptive_threshold(ws, gamma)
         IN  [err |-> "",
              val |-> UNION {Window(Len(log_lines), i - 1, lines_before, lines_after) :
                               i \in {j \in DOMAIN ws : ws[j] > thr}},
              thr |-> thr]

\* expand_context_around_high_weight_lines as it would be without the assert
\* of line 63
expand_context_unchecked(log_lines, ws, lines_before, lines_after, gamma) ==
    IF Len(ws) = 0
      THEN [err |-> "ValueError", val |-> {}, thr |-> 0]
    ELSE LET thr == compute_adaptive_threshold(ws, gamma)
         IN  [err |-> "",
              val |-> UNION {Window(Len(log_lines), i - 1, lines_before, lines_after) :
                               i \in {j \in DOMAIN ws : ws[j] >= thr}},
              thr |-> thr]

\* core/context_expand.py:63-76.  err = "AssertionError" when the assert of
\* line 63 fails, "ValueError" when max() of line 23 is given an empty list;
\* thr is the local threshold of line 66, 0 when it was never assigned.
expand_context_around_high_weight_lines(log_lines, ws, lines_before, lines_after, gamma) ==
    IF Len(log_lines) # Len(ws)
      THEN [err |-> "AssertionError", val |-> {}, thr |-> 0]
    ELSE IF Len(ws) = 0
      THEN [err |-> "ValueError", val |-> {}, thr |-> 0]
    ELSE LET thr == compute_adaptive_threshold(ws, gamma)
         IN  [err |-> "",
              val |-> UNION {Window(Len(log_lines), i - 1, lines_before, lines_after) :
                               i \in {j \in DOMAIN ws : ws[j] >= thr}},
              thr |-> thr]

(***************************************************************************)
(* Stage 6: block ranker (core/block_ranker.py)                            *)
(***************************************************************************)
\* group_contiguous_blocks.  The loop of lines 16-21 closes a block at every
\* position whose element is not the previous element + 1; the j-th block
\* runs from the j-th such position to the element before the next one.
group_contiguous_blocks(indices) ==
    LET n == Len(indices)
        breaks == {k \in 1..n : k = 1 \/ indices[k] # indices[k - 1] + 1}
        starts == SortedWithin(breaks, 1, n)
        m == Len(starts)
    IN  [j \in 1..m |->
            <<indices[starts[j]],
              indices[IF j = m THEN n ELSE starts[j + 1] - 1]>>]

\* weights[i] with Python's index rules: negative indices count from the end
InRange(ws, i) == -Len(ws) <= i /\ i < Len(ws)
WeightAt(ws, i) == IF i >= 0 THEN ws[i + 1] ELSE ws[Len(ws) + i + 1]

\* compute_block_densities, the density kept as the exact fraction num / den
compute_block_densities(ws, blocks) ==
    [j \in 1..Len(blocks) |->
        LET start == blocks[j][1]
            end == blocks[j][2]
            num_lines == end - start + 1
            total_weight == SumSeq([k \in 1..num_lines |-> WeightAt(ws, start + k - 1)])
        IN  <<blocks[j],
              IF num_lines > 0 THEN [num |-> total_weight, den |-> num_lines]
                               ELSE [num |-> 0, den |-> 1]>>]

\* float comparison of two densities; exact, the quotients being correctly
\* rounded and num * den far below 2^52
DensityGreater(a, b) == a.num * b.den > b.num * a.den
DensityEqual(a, b) == a.num * b.den = b.num * a.den

\* SortByDensityDesc as it would be without reverse=True
SortByDensityAsc(d) ==
    LET n == Len(d)
        place == [j \in 1..n |->
                    Cardinality({i \in 1..n :
                        \/ DensityGreater(d[j][2], d[i][2])
                        \/ DensityEqual(d[i][2], d[j][2]) /\ i < j}) + 1]
    IN  [k \in 1..n |-> d[CHOOSE j \in 1..n : place[j] = k]]

\* SortByDensityDesc as it would be with sorted(...)[::-1]: equal keys end
\* up in reverse order
SortByDensityReversed(d) == Reverse(SortByDensityAsc(d))

\* sorted(densities, key=lambda x: x[1], reverse=True): descending and stable
\* (elements with equal keys keep their order, also under reverse=True)
SortByDensityDesc(d) ==
    LET n == Len(d)
        place == [j \in 1..n |->
                    Cardinality({i \in 1..n :
                        \/ DensityGreater(d[i][2], d[j][2])
                        \/ DensityEqual(d[i][2], d[j][2]) /\ i < j}) + 1]
    IN  [k \in 1..n |-> d[CHOOSE j \in 1..n : place[j] = k]]

\* rank_blocks_by_density.  err = "IndexError" when a block reaches outside
\* the weight vector (block_ranker.py:49).
rank_blocks_by_density(ws, sel) ==
    LET sorted_indices == SortedSet(sel)
        contiguous_blocks == group_contiguous_blocks(sorted_indices)
    IN  IF \E j \in DOMAIN contiguous_blocks :
              ~InRange(ws, contiguous_blocks[j][1]) \/ ~InRange(ws, contiguous_blocks[j][2])
          THEN [err |-> "IndexError", val |-> <<>>]
          ELSE LET densities == compute_block_densities(ws, contiguous_blocks)
                   ranked_blocks == SortByDensityDesc(densities)
               IN  [err |-> "",
                    val |-> [k \in 1..Len(ranked_blocks) |-> ranked_blocks[k][1]]]

(***************************************************************************)
(* Stage 7: budget selector (core/token_budget.py)                         *)
(***************************************************************************)
\* estimate_tokens: sum(len(line.split()) for line in block)
estimate_tokens(block) == SumSeq([i \in 1..Len(block) |-> WordCount(block[i])])

\* Fits as it would be with the running total left out of the test
FitsAlone(count, block) == estimate_tokens(block) <= TOKEN_LIMIT

\* the test of token_budget.py:43
Fits(count, block) == count + estimate_tokens(block) <= TOKEN_LIMIT

\* BlockLines as it would be with range(start, end)
BlockLinesShort(log_lines, range) ==
    [k \in 1..(range[2] - range[1]) |-> Strip(log_lines[range[1] + k])]

\* run_pipeline.py:45: [raw_log[i].strip() for i in range(start, end + 1)]
BlockLines(log_lines, range) ==
    [k \in 1..(range[2] - range[1] + 1) |-> Strip(log_lines[range[1] + k])]

(***************************************************************************)
(* The pipeline run, one action per stage (run_pipeline.py:17-54)          *)
(***************************************************************************)
\* run_pipeline.py:22
Filter ==
    /\ pc = "filter"
    /\ filtered_lines' = filter_log_lines(raw_log)
    /\ pc' = "expand"
    /\ UNCHANGED <<raw_log, expanded_lines, weights, initial_weights, candidate_indices,
                   ranked_block_ranges, ranked_log_blocks, selected_blocks,
                   current_token_count, rejected, block_pos, selected_indices,
                   final_log, err,
                   threshold,
                   pre_seen, pre_expanded>>

\* run_pipeline.py:25-28
Expand ==
    /\ pc = "expand"
    /\ LET key_line_indices == [k \in 1..Len(filtered_lines) |-> filtered_lines[k][1]]
       IN  expanded_lines' = expand_log_blocks(raw_log, key_line_indices)
    /\ pc' = "init"
    /\ UNCHANGED <<raw_log, filtered_lines, weights, initial_weights, candidate_indices,
                   ranked_block_ranges, ranked_log_blocks, selected_blocks,
                   current_token_count, rejected, block_pos, selected_indices,
                   final_log, err,
                   threshold,
                   pre_seen, pre_expanded>>

\* run_pipeline.py:31
AssignWeights ==
    /\ pc = "init"
    /\ weights' = assign_initial_weights(raw_log, expanded_lines)
    /\ pc' = "enhance"
    /\ UNCHANGED <<raw_log, filtered_lines, expanded_lines, initial_weights,
                   candidate_indices, ranked_block_ranges, ranked_log_blocks,
                   selected_blocks, current_token_count, rejected, block_pos,
                   selected_indices, final_log, err,
                   threshold,
                   pre_seen, pre_expanded>>

\* run_pipeline.py:34.  initial_weights is the list object that was passed in,
\* as it is after the call (weight_enhance.py:13 works on a copy).
Enhance ==
    /\ pc = "enhance"
    /\ LET r == enhance_weights_by_pattern(raw_log, weights)
       IN  /\ initial_weights' = initial_weights_after(raw_log, weights)
           /\ IF r.err = ""
                 THEN weights' = r.val /\ pc' = "context" /\ err' = err
                 ELSE weights' = weights /\ pc' = "raised" /\ err' = r.err
    /\ UNCHANGED <<raw_log, filtered_lines, expanded_lines, candidate_indices,
                   ranked_block_ranges, ranked_log_blocks, selected_blocks,
                   current_token_count, rejected, block_pos, selected_indices,
                   final_log,
                   threshold,
                   pre_seen, pre_expanded>>

\* run_pipeline.py:37, with the defaults of core/context_expand.py:34-36
Context ==
    /\ pc = "context"
    /\ LET r == expand_context_around_high_weight_lines(
                    raw_log, weights, EXPAND_BEFORE, EXPAND_AFTER, WEIGHT_COUNT_THRESHOLD)
       IN  /\ candidate_indices' = r.val
           /\ threshold' = r.thr
           /\ err' = r.err
           /\ pc' = IF r.err = "" THEN "rank" ELSE "raised"
    /\ UNCHANGED <<raw_log, filtered_lines, expanded_lines, weights, initial_weights,
                   ranked_block_ranges, ranked_log_blocks, selected_blocks,
                   current_token_count, rejected, block_pos, selected_indices,
                   final_log,
                   pre_seen, pre_expanded>>

\* list(candidate_indices) for a set of line indices of a log of n lines: a
\* set has no order of its own; the ascending and the descending listing
\* stand for the orders the iteration may produce
Listings(S, n) == {SortedWithin(S, 0, n - 1), Reverse(SortedWithin(S, 0, n - 1))}

\* run_pipeline.py:40
Rank ==
    /\ pc = "rank"
    /\ \E sel \in Listings(candidate_indices, Len(raw_log)) :
          LET r == rank_blocks_by_density(weights, sel)
          IN  /\ selected_indices' = sel
              /\ ranked_block_ranges' = r.val
              /\ err' = r.err
              /\ pc' = IF r.err = "" THEN "realize" ELSE "raised"
    /\ UNCHANGED <<raw_log, filtered_lines, expanded_lines, weights, initial_weights,
                   candidate_indices, ranked_log_blocks, selected_blocks,
                   current_token_count, rejected, block_pos, final_log,
                   threshold,
                   pre_seen, pre_expanded>>

\* run_pipeline.py:43-46; the temporary list of line 40 is gone
Realize ==
    /\ pc = "realize"
    /\ ranked_log_blocks' =
          [k \in 1..Len(ranked_block_ranges) |-> BlockLines(raw_log, ranked_block_ranges[k])]
    /\ selected_indices' = <<>>
    /\ pc' = "select"
    /\ UNCHANGED <<raw_log, filtered_lines, expanded_lines, weights, initial_weights,
                   candidate_indices, ranked_block_ranges, selected_blocks,
                   current_token_count, rejected, block_pos, final_log, err,
                   threshold,
                   pre_seen, pre_expanded>>

\* token_budget.py:40-45: the next block fits and is accepted
SelectAccept ==
    /\ pc = "select"
    /\ block_pos < Len(ranked_log_blocks)
    /\ LET block == ranked_log_blocks[block_pos + 1]
       IN  /\ Fits(current_token_count, block)
           /\ selected_blocks' = Append(selected_blocks, block)
           /\ current_token_count' = current_token_count + estimate_tokens(block)
    /\ block_pos' = block_pos + 1
    /\ UNCHANGED <<pc, raw_log, filtered_lines, expanded_lines, weights, initial_weights,
                   candidate_indices, ranked_block_ranges, ranked_log_blocks, rejected,
                   selected_indices, final_log, err,
                   threshold,
                   pre_seen, pre_expanded>>

\* SelectBreak as it would be with continue in place of break
SelectSkip ==
    /\ pc = "select"
    /\ block_pos < Len(ranked_log_blocks)
    /\ ~Fits(current_token_count, ranked_log_blocks[block_pos + 1])
    /\ rejected' = TRUE
    /\ block_pos' = block_pos + 1
    /\ UNCHANGED <<pc, raw_log, filtered_lines, expanded_lines, weights, initial_weights,
                   candidate_indices, ranked_block_ranges, ranked_log_blocks,
                   selected_blocks, current_token_count, selected_indices,
                   final_log, err,
                   threshold,
                   pre_seen, pre_expanded>>

\* SelectBreak as it would be if the first line of the rejected block were kept
SelectTruncate ==
    /\ pc = "select"
    /\ block_pos < Len(ranked_log_blocks)
    /\ ~Fits(current_token_count, ranked_log_blocks[block_pos + 1])
    /\ rejected' = TRUE
    /\ selected_blocks' =
          Append(selected_blocks, SubSeq(ranked_log_blocks[block_pos + 1], 1, 1))
    /\ pc' = "flatten"
    /\ UNCHANGED <<raw_log, filtered_lines, expanded_lines, weights, initial_weights,
                   candidate_indices, ranked_block_ranges, ranked_log_blocks,
                   current_token_count, block_pos, selected_indices,
                   final_log, err, threshold,
                   pre_seen, pre_expanded>>

\* token_budget.py:46-49: the next block does not fit; break and return
SelectBreak ==
    /\ pc = "select"
    /\ block_pos < Len(ranked_log_blocks)
    /\ ~Fits(current_token_count, ranked_log_blocks[block_pos + 1])
    /\ rejected' = TRUE
    /\ pc' = "flatten"
    /\ UNCHANGED <<raw_log, filtered_lines, expanded_lines, weights, initial_weights,
                   candidate_indices, ranked_block_ranges, ranked_log_blocks,
                   selected_blocks, current_token_count, block_pos, selected_indices,
                   final_log, err,
                   threshold,
                   pre_seen, pre_expanded>>

\* token_budget.py:40, 49: the list is exhausted; return
SelectReturn ==
    /\ pc = "select"
    /\ block_pos = Len(ranked_log_blocks)
    /\ pc' = "flatten"
    /\ UNCHANGED <<raw_log, filtered_lines, expanded_lines, weights, initial_weights,
                   candidate_indices, ranked_block_ranges, ranked_log_blocks,
                   selected_blocks, current_token_count, rejected, block_pos,
                   selected_indices, final_log, err,
                   threshold,
                   pre_seen, pre_expanded>>

\* run_pipeline.py:52-54
FlattenBlocks ==
    /\ pc = "flatten"
    /\ final_log' = Flatten(selected_blocks)
    /\ pc' = "done"
    /\ UNCHANGED <<raw_log, filtered_lines, expanded_lines, weights, initial_weights,
                   candidate_indices, ranked_block_ranges, ranked_log_blocks,
                   selected_blocks, current_token_count, rejected, block_pos,
                   selected_indices, err,
                   threshold,
                   pre_seen, pre_expanded>>

(***************************************************************************)
(* Inputs                                                                  *)
(***************************************************************************)
\* lists over S of length 0..n
SeqsUpTo(S, n) == UNION {[1..k -> S] : k \in 0..n}

\* lines as read_log returns them (log_filter.py:19-20), newline included
PlainLine == <<"w", "nl">>
ErrorLine == <<"error", "sp", "w", "nl">>
FailSectionLine == <<"hash", "sp", "dash", "sp", "FAIL", "nl">>
SectionLine == <<"sp", "hash", "w", "nl">>
BigLine == <<"w22000", "nl">>
ErrorBigLine == <<"error", "sp", "w12000", "nl">>
PipelineLines ==
    {PlainLine, ErrorLine, FailSectionLine, SectionLine, BigLine, ErrorBigLine}

\* a log is a list of at most MaxSegs segments: one line of any kind, a run
\* of GapLen plain lines (longer than the tail plus both windows), or a run
\* of RunLen keyword lines (more than BETA and WEIGHT_COUNT_THRESHOLD)
MaxSegs == 3
GapLen == 230
RunLen == 510
Segments ==
    (PipelineLines \X {1}) \cup {<<PlainLine, GapLen>>, <<ErrorLine, RunLen>>}

RECURSIVE LogOf(_)
LogOf(segs) ==
    IF segs = <<>> THEN <<>>
    ELSE [k \in 1..segs[1][2] |-> segs[1][1]] \o LogOf(Tail(segs))

PipelineLogs == {LogOf(segs) : segs \in SeqsUpTo(Segments, MaxSegs)}

\* the locals of the selector and of the end of the run, before they are used
FreshTail ==
    /\ selected_blocks = <<>>
    /\ current_token_count = 0
    /\ rejected = FALSE
    /\ block_pos = 0
    /\ final_log = <<>>
    /\ err = ""

\* the locals of preprocess.expand_log_blocks, before they are used
FreshPreprocess ==
    /\ pre_seen = <<>>
    /\ pre_expanded = <<>>

\* the locals of the stages before the selector, before they are used
FreshHead ==
    /\ filtered_lines = <<>>
    /\ initial_weights = <<>>
    /\ threshold = 0
    /\ candidate_indices = {}
    /\ ranked_block_ranges = <<>>
    /\ selected_indices = <<>>

Init ==
    /\ pc = "filter"
    /\ raw_log \in PipelineLogs
    /\ expanded_lines = <<>>
    /\ weights = <<>>
    /\ ranked_log_blocks = <<>>
    /\ FreshHead
    /\ FreshTail
    /\ FreshPreprocess

Next ==
    \/ Filter
    \/ Expand
    \/ AssignWeights
    \/ Enhance
    \/ Context
    \/ Rank
    \/ Realize
    \/ SelectAccept
    \/ SelectBreak
    \/ SelectReturn
    \/ FlattenBlocks

Spec == Init /\ [][Next]_vars

(***************************************************************************)
(* The budget selector called on its own                                   *)
(***************************************************************************)
\* blocks of 5000, 8000, 12000, 22000, 1, 0 and 5000 + 8000 words
BudgetBlocks ==
    { << <<"w5000">> >>, << <<"w8000">> >>, << <<"w12000">> >>, << <<"w22000">> >>,
      << <<"w">> >>, << <<>> >>, << <<"w5000">>, <<"w8000">> >> }
MaxBlocks == 3

InitBudget ==
    /\ pc = "select"
    /\ ranked_log_blocks \in SeqsUpTo(BudgetBlocks, MaxBlocks)
    /\ raw_log = <<>>
    /\ expanded_lines = <<>>
    /\ weights = <<>>
    /\ FreshHead
    /\ FreshTail
    /\ FreshPreprocess

NextBudget == SelectAccept \/ SelectBreak \/ SelectReturn

SpecBudget == InitBudget /\ [][NextBudget]_vars

(***************************************************************************)
(* The block ranker called on its own                                      *)
(***************************************************************************)
\* rank_blocks_by_density(weights, selected_indices)
RankCall ==
    /\ pc = "rank_call"
    /\ LET r == rank_blocks_by_density(weights, selected_indices)
       IN  /\ ranked_block_ranges' = r.val
           /\ err' = r.err
           /\ pc' = IF r.err = "" THEN "returned" ELSE "raised"
    /\ UNCHANGED <<raw_log, filtered_lines, expanded_lines, weights, initial_weights,
                   candidate_indices, ranked_log_blocks, selected_blocks,
                   current_token_count, rejected, block_pos, selected_indices,
                   final_log,
                   threshold,
                   pre_seen, pre_expanded>>

\* weight vectors of RankLen entries over 0..1 and index lists of at most
\* MaxSel entries over 0..RankLen (RankLen itself lies outside the vector),
\* and the vectors and lists of tests/unit/test_block_ranker.py
RankLen == 5
MaxSel == 3
RankExamples ==
    {<<w, sel>> : w \in {<<1, 5, 3, 2, 0, 8, 4, 1>>},
                 sel \in {<<1, 2, 3, 5, 6, 7>>, <<7, 6, 5, 3, 2, 1>>,
                          <<5, 1, 6, 2, 7, 3, 5, 1>>, <<>>}}
    \cup {<<w, sel>> : w \in {<<0, 10, 0, 5, 0, 1>>, <<2, 0, 2, 0, 2, 0>>,
                                 <<4, 0, 1, 3, 0, 2>>, <<0, 0, 0, 3, 0, 0>>},
                       sel \in {<<1, 3, 5>>, <<5, 3, 1>>, <<0, 2, 4>>, <<4, 0, 2>>,
                                <<0, 1, 3, 4>>, <<0, 1, 2, 4>>, <<3, 4, 0, 0, 1>>}}
    \cup {<<w, sel>> : w \in {<<1, 5, 3, 2>>}, sel \in {<<1, 2, 1, 2, 3>>}}

InitRank ==
    /\ pc = "rank_call"
    /\ \E in \in ([1..RankLen -> 0..1] \X SeqsUpTo(0..RankLen, MaxSel)) \cup RankExamples :
          /\ weights = in[1]
          /\ selected_indices = in[2]
    /\ raw_log = <<>>
    /\ expanded_lines = <<>>
    /\ ranked_log_blocks = <<>>
    /\ filtered_lines = <<>>
    /\ initial_weights = <<>>
    /\ threshold = 0
    /\ candidate_indices = {}
    /\ ranked_block_ranges = <<>>
    /\ FreshTail
    /\ FreshPreprocess

SpecRank == InitRank /\ [][RankCall]_vars

(***************************************************************************)
(* The weight initializer called on its own                                *)
(***************************************************************************)
\* logs of n plain lines
PlainLog(n) == [k \in 1..n |-> PlainLine]

\* logs of at most MaxInitLen lines with candidate lists of at most MaxCands
\* entries (duplicates and indices outside the log included), and logs of 10
\* and of 1000 lines with the candidates 0..c-1 for every c, and the lists
\* of the worked examples
MaxInitLen == 3
MaxCands == 3
InitExamples ==
    {<<10, <<2, 5>>>>, <<10, <<5, 2, 5>>>>, <<10, <<0, 1, 2, 3, 4, 5, 12>>>>,
     <<10, <<0, 1, 2, 3, 4, 5, 6, 6>>>>, <<5, <<-1, 1, 5, 10, 3>>>>}

InitInit ==
    /\ pc = "init"
    /\ \E in \in ((0..MaxInitLen) \X SeqsUpTo(-1..MaxInitLen, MaxCands))
                  \cup {<<n, [k \in 1..c |-> k - 1]>> : n \in {10}, c \in 0..10}
                  \cup {<<n, [k \in 1..c |-> k - 1]>> : n \in {1000}, c \in 495..705}
                  \cup InitExamples :
          /\ raw_log = PlainLog(in[1])
          /\ expanded_lines = in[2]
    /\ weights = <<>>
    /\ ranked_log_blocks = <<>>
    /\ FreshHead
    /\ FreshTail
    /\ FreshPreprocess

SpecInit == InitInit /\ [][AssignWeights]_vars

(***************************************************************************)
(* The weight enhancer called on its own                                   *)
(***************************************************************************)
FailLine == <<"dash", "sp", "FAIL", "sp", "w", "nl">>
FailuresLine == <<"w", "sp", "Failures", "nl">>
LowerFailLine == <<"dash", "sp", "failed", "nl">>
HashInsideLine == <<"w", "sp", "hash", "nl">>
EnhanceLines ==
    {PlainLine, ErrorLine, FailSectionLine, SectionLine, FailLine, FailuresLine,
     LowerFailLine, HashInsideLine}

\* logs of at most MaxEnhLen lines with weight vectors of at most MaxEnhLen
\* entries over the initial weights 0, 1, 3 (the lengths may differ)
MaxEnhLen == 2

InitEnhance ==
    /\ pc = "enhance"
    /\ raw_log \in SeqsUpTo(EnhanceLines, MaxEnhLen)
    /\ weights \in SeqsUpTo({0, 1, 3}, MaxEnhLen)
    /\ expanded_lines = <<>>
    /\ ranked_log_blocks = <<>>
    /\ FreshHead
    /\ FreshTail
    /\ FreshPreprocess

SpecEnhance == InitEnhance /\ [][Enhance]_vars

(***************************************************************************)
(* The adaptive context expander called on its own                         *)
(***************************************************************************)
\* a vector of n entries, all 0 but a at position p and b at position q
TwoPeaks(n, p, a, q, b) ==
    [i \in 1..n |-> IF i = q THEN b ELSE IF i = p THEN a ELSE 0]

\* a vector of n entries: c entries 1, then zeros, and v as the last entry
LongVector(n, c, v) ==
    [i \in 1..n |-> IF i = n THEN v ELSE IF i <= c THEN 1 ELSE 0]

\* logs and weight vectors of at most MaxCtxLen entries each (the lengths may
\* differ); logs of CtxLen lines whose vector has at most two entries above
\* 0; logs longer than WEIGHT_COUNT_THRESHOLD whose number of entries >= 1
\* lies around WEIGHT_COUNT_THRESHOLD
MaxCtxLen == 2
CtxLen == 16
ContextInputs ==
    {<<n, ws>> : n \in 0..MaxCtxLen, ws \in SeqsUpTo({0, 1, 3, 10}, MaxCtxLen)}
    \cup {<<CtxLen, TwoPeaks(CtxLen, p, a, q, b)>> :
              p \in 1..CtxLen, q \in 1..CtxLen, a \in {0, 1, 3}, b \in {0, 1, 10}}
    \cup {<<WEIGHT_COUNT_THRESHOLD + 20, LongVector(WEIGHT_COUNT_THRESHOLD + 20, c, v)>> :
              c \in (WEIGHT_COUNT_THRESHOLD - 2)..(WEIGHT_COUNT_THRESHOLD + 2),
              v \in {0, 1, 3, 10}}

InitContext ==
    /\ pc = "context"
    /\ \E in \in ContextInputs :
          /\ raw_log = PlainLog(in[1])
          /\ weights = in[2]
    /\ expanded_lines = <<>>
    /\ ranked_log_blocks = <<>>
    /\ FreshHead
    /\ FreshTail
    /\ FreshPreprocess

SpecContext == InitContext /\ [][Context]_vars

(***************************************************************************)
(* The window expander called on its own                                   *)
(***************************************************************************)
\* the filtered list whose indices are the given keys
KeyedLines(keys) == [k \in 1..Len(keys) |-> <<keys[k], <<"w">>>>]

\* logs of 0, 3 and ExpLen lines with key lists of at most MaxKeys entries;
\* the keys reach from the first index whose window misses the log from
\* below to the first index whose window misses it from above
MaxKeys == 2
ExpLen == 24
ExpandInputs ==
    {<<n, keys>> : n \in {0}, keys \in SeqsUpTo(-7..4, MaxKeys)}
    \cup {<<n, keys>> : n \in {3}, keys \in SeqsUpTo(-7..10, MaxKeys)}
    \cup {<<n, keys>> : n \in {ExpLen}, keys \in SeqsUpTo(-7..(ExpLen + 4), MaxKeys)}

InitExpand ==
    /\ pc = "expand"
    /\ \E in \in ExpandInputs :
          /\ raw_log = PlainLog(in[1])
          /\ filtered_lines = KeyedLines(in[2])
    /\ expanded_lines = <<>>
    /\ weights = <<>>
    /\ ranked_log_blocks = <<>>
    /\ initial_weights = <<>>
    /\ threshold = 0
    /\ candidate_indices = {}
    /\ ranked_block_ranges = <<>>
    /\ selected_indices = <<>>
    /\ FreshTail
    /\ FreshPreprocess

SpecExpand == InitExpand /\ [][Expand]_vars

(***************************************************************************)
(* The two stages that assert len(log_lines) == len(weights), called on    *)
(* logs and vectors of any lengths                                         *)
(***************************************************************************)
InitAsserting == InitEnhance \/ InitContext

NextAsserting == Enhance \/ Context

SpecAsserting == InitAsserting /\ [][NextAsserting]_vars

(***************************************************************************)
(* The pipeline run on logs around LOG_TAIL_LINES lines                    *)
(***************************************************************************)
\* n plain lines with the given line at position p
PlainLogWith(n, p, line) == [k \in 1..n |-> IF k = p THEN line ELSE PlainLine]

\* logs of at most MaxShort lines of any kind, and logs of LOG_TAIL_LINES - 1,
\* LOG_TAIL_LINES and LOG_TAIL_LINES + 1 lines, plain but for the first or
\* the last line
MaxShort == 2
TailLogs ==
    SeqsUpTo(PipelineLines, MaxShort)
    \cup {PlainLogWith(n, p, line) :
              n \in (LOG_TAIL_LINES - 1)..(LOG_TAIL_LINES + 1),
              p \in {1, LOG_TAIL_LINES - 1},
              line \in PipelineLines}

InitTail ==
    /\ pc = "filter"
    /\ raw_log \in TailLogs
    /\ expanded_lines = <<>>
    /\ weights = <<>>
    /\ ranked_log_blocks = <<>>
    /\ FreshHead
    /\ FreshTail
    /\ FreshPreprocess

SpecTail == InitTail /\ [][Next]_vars

(***************************************************************************)
(* The pipeline, from its start and from the context expander called with  *)
(* any weight vector                                                       *)
(***************************************************************************)
InitPool == Init \/ InitContext

SpecPool == InitPool /\ [][Next]_vars

(***************************************************************************)
(* The two copies of the window expander called with the same arguments    *)
(***************************************************************************)
\* preprocess.expand_log_blocks(raw_log, keys), before the core copy is called
PreprocessExpand ==
    /\ pc = "preprocess_expand"
    /\ LET key_line_indices == [k \in 1..Len(filtered_lines) |-> filtered_lines[k][1]]
           r == preprocess_expand_log_blocks(raw_log, key_line_indices)
       IN  /\ pre_seen' = r.seen
           /\ pre_expanded' = r.expanded
    /\ pc' = "expand"
    /\ UNCHANGED <<raw_log, filtered_lines, expanded_lines, weights, initial_weights,
                   threshold, candidate_indices, ranked_block_ranges,
                   ranked_log_blocks, selected_blocks, current_token_count,
                   rejected, block_pos, selected_indices, final_log, err>>

\* a log of n lines of three kinds in turn
MixedLog(n) ==
    [k \in 1..n |-> IF k % 3 = 0 THEN SectionLine
                    ELSE IF k % 3 = 1 THEN PlainLine
                    ELSE ErrorLine]

InitExpandBoth ==
    /\ pc = "preprocess_expand"
    /\ \E in \in ExpandInputs :
          /\ raw_log = MixedLog(in[1])
          /\ filtered_lines = KeyedLines(in[2])
    /\ expanded_lines = <<>>
    /\ weights = <<>>
    /\ ranked_log_blocks = <<>>
    /\ initial_weights = <<>>
    /\ threshold = 0
    /\ candidate_indices = {}
    /\ ranked_block_ranges = <<>>
    /\ selected_indices = <<>>
    /\ FreshTail
    /\ FreshPreprocess

NextExpandBoth == PreprocessExpand \/ Expand

SpecExpandBoth == InitExpandBoth /\ [][NextExpandBoth]_vars

(***************************************************************************)
(* Properties                                                              *)
(***************************************************************************)
\* the cost of the first k blocks of a ranked list
PrefixCost(blocks, k) == SumSeq([j \in 1..k |-> estimate_tokens(blocks[j])])

\* the length of the longest prefix whose cost is within the budget
LongestFittingPrefix(blocks) ==
    CHOOSE k \in 0..Len(blocks) :
        /\ PrefixCost(blocks, k) <= 22000
        /\ \A j \in (k + 1)..Len(blocks) : PrefixCost(blocks, j) > 22000

\* C1: the selector returns exactly the longest prefix of the ranked list
\* whose cumulative cost is within the budget; once a block is rejected the
\* loop is over and nothing after it is accepted; costs 5000, 8000, 12000
\* give the first two blocks.
C1_LongestPrefix ==
    /\ pc = "flatten" =>
          selected_blocks =
            SubSeq(ranked_log_blocks, 1, LongestFittingPrefix(ranked_log_blocks))
    /\ rejected =>
          /\ pc = "flatten"
          /\ selected_blocks = SubSeq(ranked_log_blocks, 1, block_pos)
    /\ (pc = "flatten"
          /\ ranked_log_blocks = << << <<"w5000">> >>, << <<"w8000">> >>, << <<"w12000">> >> >>)
          => selected_blocks = << << <<"w5000">> >>, << <<"w8000">> >> >>

\* C1 witness: 5000, 8000, 12000 ended with two blocks, the third rejected
\* although it fits on its own
C1_Witness ==
    /\ pc = "flatten"
    /\ rejected
    /\ ranked_log_blocks = << << <<"w5000">> >>, << <<"w8000">> >>, << <<"w12000">> >> >>
    /\ Len(selected_blocks) = 2
    /\ estimate_tokens(ranked_log_blocks[3]) <= 22000

\* C2: the running total of the selector never exceeds the limit and is the
\* cost of the blocks accepted so far, and the lines a pipeline run returns
\* cost at most the limit.
C2_WithinBudget ==
    /\ current_token_count <= 22000
    /\ current_token_count = PrefixCost(selected_blocks, Len(selected_blocks))
    /\ pc = "done" => estimate_tokens(final_log) <= 22000

\* C2 witness: a run that returned lines and had to reject a block that
\* fits on its own
C2_Witness ==
    /\ pc = "done"
    /\ rejected
    /\ final_log # <<>>
    /\ estimate_tokens(ranked_log_blocks[block_pos + 1]) <= 22000

\* the line indices of the selected blocks in the order they are emitted
EmittedIndices ==
    Flatten([k \in 1..Len(selected_blocks) |->
        [j \in 1..(ranked_block_ranges[k][2] - ranked_block_ranges[k][1] + 1) |->
            ranked_block_ranges[k][1] + j - 1]])

\* the positions of EmittedIndices at which a selected block ends
BlockEnds ==
    {SumSeq([k \in 1..m |-> Len(selected_blocks[k])]) : m \in 1..Len(selected_blocks)}

\* every emitted line is the stripped log line of its index
ContentMatches ==
    /\ Len(final_log) = Len(EmittedIndices)
    /\ \A k \in 1..Len(final_log) : final_log[k] = Strip(raw_log[EmittedIndices[k] + 1])

\* C3 as stated: the emitted indices are strictly ascending (hence free of
\* duplicates) and every emitted line is the stripped log line of its index.
C3_AscendingRoundTrip ==
    pc = "done" =>
        /\ \A k \in 1..(Len(EmittedIndices) - 1) : EmittedIndices[k] < EmittedIndices[k + 1]
        /\ ContentMatches

\* C3 amended: the emitted indices are free of duplicates and ascend by one
\* inside every selected block (the blocks follow in ranked order), and
\* every emitted line is the stripped log line of its index.
C3_BlockwiseRoundTrip ==
    pc = "done" =>
        /\ Cardinality({EmittedIndices[k] : k \in 1..Len(EmittedIndices)})
             = Len(EmittedIndices)
        /\ \A k \in 1..(Len(EmittedIndices) - 1) :
              k \notin BlockEnds => EmittedIndices[k + 1] = EmittedIndices[k] + 1
        /\ ContentMatches

\* C3 witness: a finished run that emitted two blocks, the later-in-log first
C3_Witness ==
    /\ pc = "done"
    /\ Len(selected_blocks) >= 2
    /\ ranked_block_ranges[1][1] > ranked_block_ranges[2][2]
    /\ Len(final_log) > Len(selected_blocks[1])

\* C4: on an empty log no stage raises and every stage output is empty.
C4_EmptyLogNeverRaises ==
    raw_log = <<>> =>
        /\ pc # "raised"
        /\ err = ""
        /\ filtered_lines = <<>>
        /\ expanded_lines = <<>>
        /\ weights = <<>>
        /\ candidate_indices = {}
        /\ ranked_block_ranges = <<>>
        /\ final_log = <<>>

\* the maximal runs of consecutive integers of a set
MaximalRuns(S) ==
    {b \in S \X S :
        /\ b[1] <= b[2]
        /\ \A i \in b[1]..b[2] : i \in S
        /\ (b[1] - 1) \notin S
        /\ (b[2] + 1) \notin S}

\* sum of the weights of a block and its number of lines
BlockWeight(ws, b) == SumSeq([k \in 1..(b[2] - b[1] + 1) |-> ws[b[1] + k]])
BlockLength(b) == b[2] - b[1] + 1

\* C5: the ranker returns every maximal run exactly once (zero-weight runs
\* included), in non-increasing order of weight sum / length; a single-index
\* block has its line's weight as density; the worked example gives
\* [(5,7), (1,3)]; an empty index list gives an empty list.
C5_RankedByDensity ==
    pc = "returned" =>
        LET S == {selected_indices[k] : k \in DOMAIN selected_indices}
            R == ranked_block_ranges
        IN  /\ {R[k] : k \in DOMAIN R} = MaximalRuns(S)
            /\ Len(R) = Cardinality(MaximalRuns(S))
            /\ \A k \in 1..(Len(R) - 1) :
                  BlockWeight(weights, R[k]) * BlockLength(R[k + 1])
                    >= BlockWeight(weights, R[k + 1]) * BlockLength(R[k])
            /\ \A i \in S :
                  compute_block_densities(weights, << <<i, i>> >>)[1][2]
                    = [num |-> weights[i + 1], den |-> 1]
            /\ (weights = <<1, 5, 3, 2, 0, 8, 4, 1>> /\ S = {1, 2, 3, 5, 6, 7})
                  => R = << <<5, 7>>, <<1, 3>> >>
            /\ selected_indices = <<>> => R = <<>>

\* C5 witness: the worked example, ranked
C5_Witness ==
    /\ pc = "returned"
    /\ weights = <<1, 5, 3, 2, 0, 8, 4, 1>>
    /\ selected_indices = <<1, 2, 3, 5, 6, 7>>
    /\ ranked_block_ranges = << <<5, 7>>, <<1, 3>> >>

\* two blocks of equal density
SameDensity(ws, a, b) ==
    BlockWeight(ws, a) * BlockLength(b) = BlockWeight(ws, b) * BlockLength(a)

\* C6: of two blocks of equal density the one that starts earlier in the
\* log comes first in the ranked list.
C6_StableTieBreak ==
    pc = "returned" =>
        \A i, j \in DOMAIN ranked_block_ranges :
            (i < j /\ SameDensity(weights, ranked_block_ranges[i], ranked_block_ranges[j]))
                => ranked_block_ranges[i][1] < ranked_block_ranges[j][1]

\* C6 witness: three blocks ranked, two of them tied and one denser
C6_Witness ==
    /\ pc = "returned"
    /\ Len(ranked_block_ranges) = 3
    /\ SameDensity(weights, ranked_block_ranges[2], ranked_block_ranges[3])
    /\ ~SameDensity(weights, ranked_block_ranges[1], ranked_block_ranges[2])

\* C7: for any index list the reported blocks cover exactly the distinct
\* indices, are pairwise disjoint, and any two of them are separated by a
\* gap of at least one index.
C7_MaximalRuns ==
    pc = "returned" =>
        LET S == {selected_indices[k] : k \in DOMAIN selected_indices}
            R == ranked_block_ranges
        IN  /\ UNION {R[k][1]..R[k][2] : k \in DOMAIN R} = S
            /\ \A k \in DOMAIN R : R[k][1] <= R[k][2]
            /\ \A i, j \in DOMAIN R :
                  i # j => (R[i][1]..R[i][2]) \cap (R[j][1]..R[j][2]) = {}
            /\ \A i, j \in DOMAIN R :
                  (i # j /\ R[i][1] <= R[j][1]) => R[j][1] >= R[i][2] + 2

\* C7 witness: an unsorted list with duplicates, ranked into two blocks
C7_Witness ==
    /\ pc = "returned"
    /\ selected_indices = <<5, 1, 6, 2, 7, 3, 5, 1>>
    /\ Len(ranked_block_ranges) = 2

\* C8: density = |candidates| / |log| (0 for an empty log), confident =
\* density <= 0.7 and |candidates| <= 500, both inclusive; candidates inside
\* the log get 3 if confident and 1 otherwise, every other index gets 0;
\* with the worked examples of the claim.
C8_InitialWeights ==
    pc = "enhance" =>
        LET n == Len(raw_log)
            c == Len(expanded_lines)
            cands == {expanded_lines[k] : k \in DOMAIN expanded_lines}
            confident == (n = 0 \/ 10 * c <= 7 * n) /\ c <= 500
        IN  /\ Len(weights) = n
            /\ \A i \in 0..(n - 1) :
                  weights[i + 1] = IF i \in cands THEN (IF confident THEN 3 ELSE 1) ELSE 0
            /\ (n = 10 /\ expanded_lines = <<2, 5>>) => weights[3] = 3 /\ weights[6] = 3
            /\ (n = 10 /\ c = 7 /\ 0 \in cands) => weights[1] = 3
            /\ (n = 10 /\ c = 8 /\ 0 \in cands) => weights[1] = 1
            /\ (n = 1000 /\ c = 500 /\ 0 \in cands) => weights[1] = 3
            /\ (n = 1000 /\ c = 600 /\ 0 \in cands) => weights[1] = 1

\* C8 witness: 500 candidates of 1000 lines, weighted 3
C8_Witness ==
    /\ pc = "enhance"
    /\ Len(raw_log) = 1000
    /\ Len(expanded_lines) = 500
    /\ weights[1] = 3
    /\ weights[501] = 0

\* the lines of the enhancer's inputs that hold "--- FAIL:" or "Failures:"
HardFailureLines == {FailSectionLine, FailLine, FailuresLine}
\* those that hold neither and start with "#" once stripped
SectionOnlyLines == {SectionLine}

\* C9: a line with a hard-failure pattern gets weight 10 whatever its
\* weight was, also when it is a section line as well.
C9_FailureWins ==
    pc = "context" =>
        \A i \in DOMAIN raw_log :
            raw_log[i] \in HardFailureLines => weights[i] = 10

\* C9 witness: a line that is both a section and a failure line went from 1
\* to 10
C9_Witness ==
    /\ pc = "context"
    /\ \E i \in DOMAIN raw_log :
          raw_log[i] = FailSectionLine /\ initial_weights[i] = 1 /\ weights[i] = 10

\* C10: one rule per line: a section line without failure pattern gets
\* + 2 (also from 0, and no + 1 on top); a line with neither pattern gets
\* + 1 if its weight was above 0 and stays 0 otherwise.
C10_OneRulePerLine ==
    pc = "context" =>
        \A i \in DOMAIN raw_log :
            /\ raw_log[i] \in SectionOnlyLines => weights[i] = initial_weights[i] + 2
            /\ raw_log[i] \notin (HardFailureLines \cup SectionOnlyLines) =>
                  weights[i] = IF initial_weights[i] > 0 THEN initial_weights[i] + 1 ELSE 0

\* C10 witness: a section line went from 0 to 2 beside a plain line that
\* stayed 0
C10_Witness ==
    /\ pc = "context"
    /\ Len(raw_log) = 2
    /\ raw_log[1] = SectionLine /\ initial_weights[1] = 0 /\ weights[1] = 2
    /\ raw_log[2] = PlainLine /\ initial_weights[2] = 0 /\ weights[2] = 0

\* the number of lines with weight >= 1
NonzeroCount(ws) == Cardinality({i \in DOMAIN ws : ws[i] >= 1})

\* C11: whenever the adaptive threshold is computed it is 1 or 3, and it is
\* 1 exactly when the largest weight is 1 or at most 500 lines have a
\* weight >= 1
C11_AdaptiveThreshold ==
    pc = "rank" =>
        /\ threshold \in {1, 3}
        /\ threshold = 1 <=>
              \/ /\ \E i \in DOMAIN weights : weights[i] = 1
                 /\ \A i \in DOMAIN weights : weights[i] <= 1
              \/ NonzeroCount(weights) <= 500

\* the threshold 3 is produced, and the threshold 1 with exactly 500 weighted
\* lines of which one is above 1 is covered by InitContext
C11_Witness ==
    /\ pc = "rank"
    /\ threshold = 3
    /\ NonzeroCount(weights) = 501

\* C12: the context expander returns exactly the indices k of the log that
\* lie within [i - 4, i + 6] of some line i whose weight reaches the
\* threshold; a weighted line outside all these windows is left out
C12_ContextWindows ==
    pc = "rank" =>
        candidate_indices =
            {k \in 0..(Len(raw_log) - 1) :
                \E i \in 0..(Len(raw_log) - 1) :
                    /\ weights[i + 1] >= threshold
                    /\ i - 4 <= k
                    /\ k <= i + 6}

\* a run in which a line of non-zero weight is left out of the result
C12_Witness ==
    /\ pc = "rank"
    /\ candidate_indices # {}
    /\ \E i \in DOMAIN weights : weights[i] >= 1 /\ (i - 1) \notin candidate_indices

\* the line holds a token whose text contains a configured keyword in some
\* letter case: "error", "FAIL:", "Failures:", "failed"
HasKeywordText(line) ==
    \E i \in DOMAIN line : line[i] \in {"error", "FAIL", "Failures", "failed"}

\* the indices reported by the candidate filter
FilteredIndices == {filtered_lines[k][1] : k \in DOMAIN filtered_lines}

\* C13: the candidate filter reports, in strictly ascending order and once
\* each, exactly the indices whose line contains a keyword in any letter case
\* or that are among the last 200 of the log, each with its trimmed line
\* (stated of the run at the return of the filter)
C13_FilterResult ==
    pc = "expand" =>
        /\ \A k \in 1..(Len(filtered_lines) - 1) :
              filtered_lines[k][1] < filtered_lines[k + 1][1]
        /\ FilteredIndices =
              {i \in 0..(Len(raw_log) - 1) :
                  HasKeywordText(raw_log[i + 1]) \/ i >= Len(raw_log) - 200}
        /\ \A k \in DOMAIN filtered_lines :
              filtered_lines[k][2] = Strip(raw_log[filtered_lines[k][1] + 1])

\* a log of more than 200 lines with a keyword line before the tail, a
\* keyword line inside the tail, and a line that is not reported
C13_Witness ==
    /\ pc = "expand"
    /\ Len(raw_log) > 200
    /\ Len(filtered_lines) < Len(raw_log)
    /\ \E i \in FilteredIndices : i < Len(raw_log) - 200
    /\ \E i \in FilteredIndices :
          i >= Len(raw_log) - 200 /\ HasKeywordText(raw_log[i + 1])

\* the keys handed to the window expander, and the indices it returned
KeyIndices == {filtered_lines[k][1] : k \in DOMAIN filtered_lines}
ExpandedSet == {expanded_lines[k] : k \in DOMAIN expanded_lines}

\* C14: the window expander returns, ascending and without duplicates,
\* exactly the indices of the log that lie within [i - 4, i + 6] of some key
\* i; every returned index is an index of the log
C14_ExpandedWindows ==
    pc = "init" =>
        /\ \A k \in 1..(Len(expanded_lines) - 1) :
              expanded_lines[k] < expanded_lines[k + 1]
        /\ ExpandedSet \subseteq 0..(Len(raw_log) - 1)
        /\ ExpandedSet =
              {k \in 0..(Len(raw_log) - 1) :
                  \E i \in KeyIndices : i - 4 <= k /\ k <= i + 6}

\* the keys 3 and 5: the windows 0..9 and 1..11 merge into 0..11
C14_Witness ==
    /\ pc = "init"
    /\ Len(raw_log) > 11
    /\ filtered_lines = KeyedLines(<<3, 5>>)
    /\ expanded_lines = [k \in 1..12 |-> k - 1]

\* C15: every key that is an index of the log is among the returned
\* indices, and at most 11 indices are returned per key
C15_MonotonicBounded ==
    pc = "init" =>
        /\ \A i \in KeyIndices :
              (0 <= i /\ i < Len(raw_log)) => i \in ExpandedSet
        /\ Len(expanded_lines) <= Len(filtered_lines) * 11

\* two keys whose windows are disjoint and complete: 22 indices
C15_Witness ==
    /\ pc = "init"
    /\ Len(filtered_lines) = 2
    /\ Len(expanded_lines) = 22
    /\ KeyIndices \subseteq ExpandedSet

\* C16: a key outside the log is clamped, never rejected: alone it gives the
\* empty list when its clamped window is empty, and a negative key whose
\* window reaches the log gives the indices from 0 to its window's end
C16_OutOfRangeKeys ==
    pc = "init" =>
        /\ err = ""
        /\ \A i \in KeyIndices :
              (i < 0 \/ i >= Len(raw_log)) =>
                  LET start == IF i - 4 > 0 THEN i - 4 ELSE 0
                      end == IF i + 7 < Len(raw_log) THEN i + 7 ELSE Len(raw_log)
                  IN  /\ (start >= end /\ Len(filtered_lines) = 1)
                            => expanded_lines = <<>>
                      /\ (i < 0 /\ start < end) => 0..(end - 1) \subseteq ExpandedSet
                      /\ (i < 0 /\ start < end /\ Len(filtered_lines) = 1)
                            => expanded_lines = [k \in 1..end |-> k - 1]
        /\ (Len(raw_log) = 3 /\ filtered_lines = KeyedLines(<<10>>))
              => expanded_lines = <<>>
        /\ (Len(raw_log) = 3 /\ filtered_lines = KeyedLines(<<-1>>))
              => expanded_lines = <<0, 1, 2>>

\* the key -1 in a log of 3 lines
C16_Witness ==
    /\ pc = "init"
    /\ Len(raw_log) = 3
    /\ filtered_lines = KeyedLines(<<-1>>)
    /\ expanded_lines = <<0, 1, 2>>

\* the candidate indices handed to the weight initializer
CandidateSet == {expanded_lines[k] : k \in DOMAIN expanded_lines}

\* C17: the weight initializer raises nothing on candidates outside the log:
\* the vector has one entry per log line, positive exactly at the candidates
\* that are indices of the log and 0 everywhere else
C17_InvalidCandidatesSkipped ==
    pc = "enhance" =>
        /\ err = ""
        /\ Len(weights) = Len(raw_log)
        /\ \A i \in 0..(Len(raw_log) - 1) :
              IF i \in CandidateSet
                THEN weights[i + 1] > 0
                ELSE weights[i + 1] = 0

\* candidates below and above the log next to candidates inside it
C17_Witness ==
    /\ pc = "enhance"
    /\ \E c \in CandidateSet : c < 0
    /\ \E c \in CandidateSet : c >= Len(raw_log)
    /\ \E i \in DOMAIN weights : weights[i] > 0
    /\ \E i \in DOMAIN weights : weights[i] = 0

\* C18: at every stage boundary after the weight initializer the weight
\* vector has one entry per log line: the vector returned by the
\* initializer, the one handed to the enhancer and the one it returns
C18_WeightVectorLength ==
    /\ pc \notin {"filter", "expand", "init"} => Len(weights) = Len(raw_log)
    /\ pc \notin {"filter", "expand", "init", "enhance"}
          => Len(initial_weights) = Len(raw_log)

\* a log with lines that are no candidates, after the enhancer has changed
\* the vector
C18_Witness ==
    /\ pc = "context"
    /\ Len(weights) > 200
    /\ weights # initial_weights
    /\ \E i \in DOMAIN weights : weights[i] = 0

C20_MismatchIsFatal ==
    [][(pc \in {"enhance", "context"} /\ Len(raw_log) # Len(weights)) =>
          /\ pc' = "raised"
          /\ err' = "AssertionError"
          /\ weights' = weights
          /\ threshold' = 0
          /\ candidate_indices' = {}]_vars

\* a call that ended with the assertion
C20_Witness ==
    /\ pc = "raised"
    /\ err = "AssertionError"
    /\ Len(raw_log) # Len(weights)
    /\ weights # <<>>

\* the candidate criteria applied to a set of indices of the log: a keyword
\* in the line, or a place among the last 200 indices
Refiltered(indices) ==
    {i \in indices :
        HasKeywordText(raw_log[i + 1]) \/ i >= Len(raw_log) - 200}

\* C21: the candidate criteria, applied again to the indices the filter
\* selected and against the same log, select the same index set
C21_FilterIdempotent ==
    pc = "expand" => Refiltered(FilteredIndices) = FilteredIndices

\* a log from which the filter left lines out and kept a keyword line that
\* lies before the tail
C21_Witness ==
    /\ pc = "expand"
    /\ FilteredIndices # {}
    /\ Cardinality(FilteredIndices) < Len(raw_log)
    /\ \E i \in FilteredIndices :
          i < Len(raw_log) - 200 /\ HasKeywordText(raw_log[i + 1])

\* the context expander has returned in this run
ContextReturned ==
    pc \notin {"filter", "expand", "init", "enhance", "context", "raised",
               "rank_call", "returned"}

\* C22: when the weight initializer was not confident, so that no initial
\* weight is above 1, the context expander of the same run uses threshold 1
\* and returns the whole window of every line of non-zero weight
C22_UnconfidentExpandsBroadly ==
    (/\ ContextReturned
     /\ \A i \in DOMAIN initial_weights : initial_weights[i] <= 1)
    => /\ threshold = 1
       /\ \A i \in DOMAIN weights :
             weights[i] > 0 =>
                 \A k \in 0..(Len(raw_log) - 1) :
                     (i - 1 - 4 <= k /\ k <= i - 1 + 6) => k \in candidate_indices

\* C25: the weight vector depends only on the set of candidate indices that
\* are indices of the log: it is the vector the initializer returns for the
\* ascending list of exactly these indices, whatever duplicates and
\* out-of-range entries the list given to it holds
C25_OnlyValidSetMatters ==
    pc = "enhance" =>
        weights = assign_initial_weights(raw_log,
                      SortedWithin(CandidateSet \cap (0..(Len(raw_log) - 1)),
                                   0, Len(raw_log) - 1))

\* C23: when the highest-ranked block alone costs more than the budget, the
\* selector accepts nothing and the run returns no line, whatever the blocks
\* ranked below it cost
C23_TopBlockTooBig ==
    (/\ pc \in {"flatten", "done"}
     /\ ranked_log_blocks # <<>>
     /\ estimate_tokens(ranked_log_blocks[1]) > 22000)
    => /\ selected_blocks = <<>>
       /\ current_token_count = 0
       /\ pc = "done" => final_log = <<>>

\* a finished run whose first block was too big while its second block fits
C23_Witness ==
    /\ pc = "done"
    /\ Len(ranked_log_blocks) >= 2
    /\ estimate_tokens(ranked_log_blocks[1]) > 22000
    /\ estimate_tokens(ranked_log_blocks[2]) <= 22000
    /\ estimate_tokens(ranked_log_blocks[2]) > 0
    /\ final_log = <<>>

\* the number of lines of the ranked blocks before the j-th
RangeOffset(j) ==
    SumSeq([m \in 1..(j - 1) |->
               ranked_block_ranges[m][2] - ranked_block_ranges[m][1] + 1])

\* C24: the output of a run consists of whole blocks: for some k the first k
\* ranked blocks appear one after the other, each with all lines of its
\* range, in log order and trimmed, the other blocks contribute no line, and
\* no two blocks share a log index
C24_BlocksAtomic ==
    pc = "done" =>
        LET k == Len(selected_blocks)
        IN  /\ k <= Len(ranked_block_ranges)
            /\ Len(final_log) = RangeOffset(k + 1)
            /\ \A j \in 1..k :
                  \A i \in ranked_block_ranges[j][1]..ranked_block_ranges[j][2] :
                      final_log[RangeOffset(j) + i - ranked_block_ranges[j][1] + 1]
                          = Strip(raw_log[i + 1])
            /\ \A j1, j2 \in 1..Len(ranked_block_ranges) :
                  j1 # j2 =>
                      \/ ranked_block_ranges[j1][2] < ranked_block_ranges[j2][1]
                      \/ ranked_block_ranges[j2][2] < ranked_block_ranges[j1][1]

\* a finished run that emitted one block whole and none of the next
C24_Witness ==
    /\ pc = "done"
    /\ rejected
    /\ Len(selected_blocks) = 1
    /\ Len(ranked_block_ranges) >= 2
    /\ Len(final_log) = ranked_block_ranges[1][2] - ranked_block_ranges[1][1] + 1
    /\ Len(final_log) > 1

\* the 0-based indices of the log lines that hold a hard-failure pattern
FailureIndices == {i \in 0..(Len(raw_log) - 1) : raw_log[i + 1] \in HardFailureLines}

\* C26: in a run on a non-empty log every hard-failure line has weight 10
\* and lies, with every index of the log within [i - 4, i + 6], in the
\* index set of the context expander, and once the blocks are ranked it lies
\* in one of them, under threshold 1 and under threshold 3
C26_FailuresKept ==
    (ContextReturned /\ raw_log # <<>>) =>
        \A i \in FailureIndices :
            /\ weights[i + 1] = 10
            /\ \A k \in 0..(Len(raw_log) - 1) :
                  (i - 4 <= k /\ k <= i + 6) => k \in candidate_indices
            /\ pc # "rank" =>
                  \E b \in DOMAIN ranked_block_ranges :
                      ranked_block_ranges[b][1] <= i /\ i <= ranked_block_ranges[b][2]

\* a run under threshold 3 whose blocks are ranked, with a hard-failure line
\* and a weighted line that was left out
C26_Witness ==
    /\ pc = "realize"
    /\ threshold = 3
    /\ FailureIndices # {}
    /\ \E i \in DOMAIN weights : weights[i] > 0 /\ (i - 1) \notin candidate_indices

\* the values held by a weight vector
Values(ws) == {ws[i] : i \in DOMAIN ws}

\* C27: in a pipeline run the initial weights are 0, 1 or 3 and the enhanced
\* weights are 0, 2, 3, 4, 5 or 10, never 1; the threshold is 1 exactly when
\* at most 500 weights are non-zero (each stated at the return of its stage)
C27_WeightValues ==
    /\ pc = "enhance" => Values(weights) \subseteq {0, 1, 3}
    /\ pc = "context" =>
          /\ Values(initial_weights) \subseteq {0, 1, 3}
          /\ Values(weights) \subseteq {0, 2, 3, 4, 5, 10}
    /\ pc = "rank" =>
          (threshold = 1 <=> Cardinality({i \in DOMAIN weights : weights[i] # 0}) <= 500)

\* a run in which every initial weight was at most 1 and the threshold is 3
C27_Witness ==
    /\ pc = "rank"
    /\ threshold = 3
    /\ 1 \in Values(initial_weights)
    /\ 2 \in Values(weights)

\* the whole log, every line trimmed
TrimmedLog == [k \in 1..Len(raw_log) |-> Strip(raw_log[k])]

\* C28: on a log of 1 to 200 lines every line is a candidate of the filter,
\* the initializer is not confident (every initial weight is 1), the
\* threshold is 1, there is exactly one block and it covers the whole log,
\* and the output is the whole trimmed log in log order, or nothing when the
\* whole log costs more than 22000
C28_ShortLogOneBlock ==
    (1 <= Len(raw_log) /\ Len(raw_log) <= 200) =>
        /\ err = ""
        /\ pc # "filter" => Len(filtered_lines) = Len(raw_log)
        /\ pc = "enhance" => Values(weights) = {1}
        /\ pc \notin {"filter", "expand", "init", "enhance"} =>
              Values(initial_weights) = {1}
        /\ ContextReturned =>
              /\ threshold = 1
              /\ candidate_indices = 0..(Len(raw_log) - 1)
        /\ (ContextReturned /\ pc # "rank") =>
              ranked_block_ranges = << <<0, Len(raw_log) - 1>> >>
        /\ pc = "done" =>
              final_log = IF estimate_tokens(TrimmedLog) > 22000
                            THEN <<>>
                            ELSE TrimmedLog

\* a finished run on a log of exactly 200 lines that returned all of them
C28_Witness ==
    /\ pc = "done"
    /\ Len(raw_log) = 200
    /\ Len(final_log) = 200
    /\ final_log = TrimmedLog

\* C29: under threshold 1 the index set of the context expander holds every
\* index of non-zero weight, and in a pipeline run every index the window
\* expander had returned
C29_PoolKeptUnderLowThreshold ==
    (ContextReturned /\ threshold = 1) =>
        /\ \A i \in DOMAIN weights : weights[i] # 0 => (i - 1) \in candidate_indices
        /\ ExpandedSet \subseteq candidate_indices

\* a pipeline run under threshold 1 whose final index set is larger than
\* the set of the window expander
C29_Witness ==
    /\ ContextReturned
    /\ threshold = 1
    /\ expanded_lines # <<>>
    /\ Cardinality(candidate_indices) > Len(expanded_lines)

\* the keys in the order in which they were handed over
KeyList == [k \in 1..Len(filtered_lines) |-> filtered_lines[k][1]]

\* C30: called with the same log and keys, the preprocess copy of the window
\* expander emits every log line at most once and for exactly the indices
\* the core copy returns, each line trimmed; for keys in ascending order it
\* emits them in the ascending index order of the core copy
C30_ExpandersAgree ==
    pc = "init" =>
        /\ Cardinality({pre_seen[k] : k \in DOMAIN pre_seen}) = Len(pre_seen)
        /\ {pre_seen[k] : k \in DOMAIN pre_seen} = ExpandedSet
        /\ Len(pre_expanded) = Len(pre_seen)
        /\ \A k \in DOMAIN pre_expanded :
              pre_expanded[k] = Strip(raw_log[pre_seen[k] + 1])
        /\ (\A k \in 1..(Len(KeyList) - 1) : KeyList[k] <= KeyList[k + 1]) =>
              /\ pre_seen = expanded_lines
              /\ pre_expanded = [k \in 1..Len(expanded_lines) |->
                                    Strip(raw_log[expanded_lines[k] + 1])]

\* two overlapping windows given in descending key order: the same indices,
\* each once, in another order than the core copy's
C30_Witness ==
    /\ pc = "init"
    /\ Len(KeyList) = 2
    /\ KeyList[1] > KeyList[2]
    /\ KeyList[1] - KeyList[2] < 11
    /\ pre_seen # expanded_lines
    /\ Len(pre_seen) = Len(expanded_lines)
    /\ Len(pre_seen) > 11

====
